---- MODULE Spec2Model ----
(***************************************************************************)
(* Model of one eezo connector (eezo/connector.py): the connect() loop,    *)
(* the socket.io event handlers it registers, the execution of inbound     *)
(* jobs (__execute_job) and the correlation of nested invocations          *)
(* (_run / __get_job_result) through the job_responses table.              *)
(*                                                                         *)
(* mode selects the variant: "sync" is class Connector (handlers and jobs  *)
(* run in threads), "async" is class AsyncConnector (one event loop,       *)
(* code between two awaits is atomic).                                     *)
(***************************************************************************)
EXTENDS Integers, Sequences, FiniteSets, TLC

\* ---------------------------------------------------------------- bounds
MaxJobs == 2
MaxInvokes == 2
MaxInvokesPerJob == 1
MaxTokens == 2
\* connector ids a client can register a handler for
MaxConnectors == 2
\* calls one handler makes on its context, events kept in the log of emitted
\* events, messages created, components added to one message
MaxCalls == 3
MaxEvents == 2
MaxMessages == 2
MaxComponents == 1
\* update_state calls kept in the log of state requests
MaxSaves == 2

\* ------------------------------------------------------------- constants
BackoffDelay == 5

Jobs == 1..MaxJobs
Ids == 1..MaxInvokes
Modes == {"sync", "async"}
ConnectorIds == 1..MaxConnectors
Funcs == {"f", "g"}
RetVals == {"ok"}
Msgs == {"bad input"}
Results == {"r1"}
RemoteErrors == {"e1"}

VARIABLES mode, pc, run_loop, connected, auth_token, tokens, job_responses,
          jobs, invs, nextId, hist, client, iface

vars == <<mode, pc, run_loop, connected, auth_token, tokens, job_responses,
          jobs, invs, nextId, hist, client, iface>>

\* the state of one connector
connvars == <<pc, run_loop, connected, auth_token, tokens, job_responses,
              jobs, invs, nextId, hist>>

\* ------------------------------------------------------------ error texts
\* str(e) of the exceptions that can reach the except clause of __execute_job
ErrText(kind, sub, msg) == [kind |-> kind, sub |-> sub, msg |-> msg]
NoErr == ErrText("null", 0, "")
BadNamespaceError == ErrText("BadNamespaceError", 0, "/ is not a connected namespace.")
ContextTypeError == ErrText("TypeError", 0, "__init__")

\* a failure report that leaves out the tag
FailureCompletionUntagged(e) ==
    [result |-> "null", success |-> FALSE, error |-> e, traceback |-> TRUE,
     error_tag |-> "null"]

\* JobCompleted(...).to_dict()
JobCompleted(result, success, error, tb, error_tag) ==
    [result |-> result, success |-> success, error |-> error,
     traceback |-> tb, error_tag |-> error_tag]

SuccessCompletion(v) == JobCompleted(v, TRUE, NoErr, FALSE, "null")
FailureCompletion(e) == JobCompleted("null", FALSE, e, TRUE, "Connector error")

\* ------------------------------------------------- job_response payloads
NoResp == [id |-> -1, success |-> TRUE, result |-> "null", error |-> "null"]

\* A job_response of the peer carries the new_job_id of an invoke_skill it
\* has received, or an id this connector never issued (uuid4 ids cannot be
\* guessed before they are emitted).
ForeignId == 0

PeerResponses(ids) ==
    [id : ids, success : {TRUE}, result : Results, error : {"null"}]
    \cup [id : ids, success : {FALSE}, result : {"null"}, error : RemoteErrors]

\* a __get_job_result that never looks at the success flag
GetSuccessIgnored(resp) == TRUE

\* response.get("success", True)
GetSuccess(resp) == resp.success

\* the exception __get_job_result raises for a failed sub job
SubJobError(m, id, resp) ==
    IF m = "sync" THEN ErrText("plain", 0, resp.error)
    ELSE ErrText("propagating", id, resp.error)

\* ------------------------------------------------------------ job records
IdleJob == [st |-> "idle", inv |-> 0, n |-> 0, outcome |-> "none", ret |-> "none",
            err |-> NoErr, comp |-> <<>>]

\* the new_job_ids of the invoke_skill events that were emitted
Sent == {k \in DOMAIN invs : invs[k].st # "unsent"}

\* Client.__init__ / AsyncClient.__init__: no handler registered, nothing
\* started.  functions is connector_functions; table, wait and got are per
\* constructed connector: the dict object its job_responses refers to, the id
\* its invoke() waits for, and the connection on which the response it last
\* consumed had been received; dicts is the content of each dict object;
\* state is where the connect() of each constructed connector is: "auth" (in
\* its first authenticate()), "serving", "stopped" (returned after an
\* auth_error), "failed" (authenticate() raised) or "cancelled".
NewClient ==
    [pc |-> "setup", functions |-> <<>>, table |-> <<>>, wait |-> <<>>,
     got |-> <<>>, dicts |-> <<>>, nextInv |-> 1, state |-> <<>>]

\* keys and values of the per-user state, and the states the server holds at
\* the start: one for user 1, none for any other user
StateKeys == {"test"}
StateVals == {1, 2}
EmptyState == [k \in {} |-> 0]
InitialStore == [u \in {1} |-> [k \in StateKeys |-> 1]]

\* the handler contexts of one connection: up is whether the transport is
\* connected, started the jobs whose __execute_job has built its context, ctx
\* the context objects, out the direct_message and invoke_skill events handed
\* to sio.emit so far, store the states the server holds by state_id, updates
\* the update_state requests sent so far
NewIface ==
    [up |-> TRUE, started |-> {}, ctx |-> <<>>, out |-> <<>>, nextMsg |-> 1,
     nextInv |-> 1, store |-> InitialStore, updates |-> <<>>]

Init ==
    /\ mode \in Modes
    /\ pc = "auth"
    /\ run_loop = TRUE
    /\ connected = FALSE
    /\ auth_token = 0
    /\ tokens = 0
    /\ job_responses = <<>>
    /\ jobs = [j \in Jobs |-> IdleJob]
    /\ invs = <<>>
    /\ nextId = 1
    /\ hist = [authed |-> FALSE, waited |-> 0, attempted |-> FALSE, authErr |-> FALSE,
               signin |-> "none", texp |-> "none", inflight |-> {},
               authev |-> <<>>]
    /\ client = NewClient
    /\ iface = NewIface

\* ------------------------------------------------------------------------
\* connect(): authentication and the reconnect loop
\* ------------------------------------------------------------------------

\* an __authenticate() that forgets the stored token when /signin fails
AuthenticateTokenCleared(ok) == IF ok THEN tokens + 1 ELSE 0

\* __authenticate(): POST /signin; a 200 stores the issued token, anything
\* else raises. ok is the peer's answer.  Returns the new auth_token.
AuthenticateToken(ok) == IF ok THEN tokens + 1 ELSE auth_token

\* what the /signin call can do: answer 200, answer another status
\* (raise Exception(f"{status}: {detail}")), or fail at the network level
\* (requests.post / session.post raises)
SigninOutcomes == {"ok", "rejected", "neterror"}

\* a connect() whose first authenticate() sits inside the retry loop: a /signin
\* that does not answer 200 is followed by the backoff and a connection attempt
AfterInitialAuthInsideLoop(o) == IF o = "ok" THEN "loop" ELSE "backoff"

\* where connect() goes after its first statement: the call is outside the
\* loop and its try block, so whatever it raises ends connect()
AfterInitialAuth(o) == IF o = "ok" THEN "loop" ELSE "failed"

\* first statement of connect(): self.__authenticate()
InitialAuth ==
    /\ pc = "auth"
    /\ \E o \in SigninOutcomes :
        /\ auth_token' = AuthenticateToken(o = "ok")
        /\ tokens' = IF o = "ok" THEN tokens + 1 ELSE tokens
        /\ pc' = AfterInitialAuth(o)
        /\ hist' = [hist EXCEPT !.authed = (o = "ok"), !.signin = o]
    /\ UNCHANGED <<iface, client, mode, run_loop, connected, job_responses, jobs, invs, nextId>>

\* a loop that does not test the run-flag (while True:)
LoopTargetUnconditional == "connecting"

\* while self.run_loop: -- the test of the loop condition
LoopTarget == IF run_loop THEN "connecting" ELSE "closing"

LoopCheck ==
    /\ pc = "loop"
    /\ pc' = LoopTarget
    /\ hist' = IF run_loop
               THEN [hist EXCEPT !.authed = FALSE, !.waited = 0, !.attempted = TRUE]
               ELSE hist
    /\ UNCHANGED <<iface, client, mode, run_loop, connected, auth_token, tokens, job_responses,
                   jobs, invs, nextId>>

\* a connect handler that sends the token it saw when the connector was
\* constructed (self.auth_token does not exist yet at that point)
AuthenticateEventStale == [token |-> 0, cid |-> "cid", key |-> "key"]

\* payload of the authenticate event the connect handler emits:
\* {"token": self.auth_token, "cid": self.connector_id, "key": self.api_key}
AuthenticateEvent == [token |-> auth_token, cid |-> "cid", key |-> "key"]

\* self.sio.connect(SERVER) succeeds: the connect event handler emits
\* authenticate {token, cid, key}; connect() goes on to self.sio.wait().
\* hist.authev is what has been emitted as authenticate on this session;
\* hist.texp becomes "carried" when the session is established after a
\* token_expired whose /signin call failed.
ConnectOk ==
    /\ pc = "connecting"
    /\ connected' = TRUE
    /\ pc' = "waiting"
    /\ hist' = [hist EXCEPT !.authev = <<AuthenticateEvent>>,
                            !.texp = IF @ = "failed" THEN "carried" ELSE @]
    /\ UNCHANGED <<iface, client, mode, run_loop, auth_token, tokens, job_responses, jobs, invs,
                   nextId>>

\* self.sio.connect(SERVER) raises ConnectionError:
\* if self.run_loop: sleep(5) else: break
ConnectError ==
    /\ pc = "connecting"
    /\ pc' = IF run_loop THEN "backoff" ELSE "closing"
    /\ UNCHANGED <<iface, client, mode, run_loop, connected, auth_token, tokens, job_responses,
                   jobs, invs, nextId, hist>>

\* time.sleep(5) / await asyncio.sleep(5) has elapsed
BackoffSleep ==
    /\ pc = "backoff"
    /\ pc' = "loop"
    /\ hist' = [hist EXCEPT !.waited = BackoffDelay]
    /\ UNCHANGED <<iface, client, mode, run_loop, connected, auth_token, tokens, job_responses,
                   jobs, invs, nextId>>

\* self.sio.wait() returns once the transport is gone
WaitReturns ==
    /\ pc = "waiting"
    /\ ~connected
    /\ pc' = "loop"
    /\ UNCHANGED <<iface, client, mode, run_loop, connected, auth_token, tokens, job_responses,
                   jobs, invs, nextId, hist>>

\* the jobs whose thread / task is running at the step that clears run_loop
\* (kept from the first such step on)
InFlightAtStop ==
    IF run_loop THEN {j \in Jobs : jobs[j].st \notin {"idle", "done"}} ELSE hist.inflight

\* except KeyboardInterrupt: self.run_loop = False; break
Interrupt ==
    /\ pc \in {"connecting", "waiting"}
    /\ run_loop' = FALSE
    /\ pc' = "closing"
    /\ hist' = [hist EXCEPT !.inflight = InFlightAtStop]
    /\ UNCHANGED <<iface, client, mode, connected, auth_token, tokens, job_responses, jobs, invs,
                   nextId>>

\* self.sio.disconnect() after the loop
Close ==
    /\ pc = "closing"
    /\ connected' = FALSE
    /\ pc' = "done"
    /\ UNCHANGED <<iface, client, mode, run_loop, auth_token, tokens, job_responses, jobs, invs,
                   nextId, hist>>

\* ------------------------------------------------------------------------
\* events of the peer, delivered while the transport is connected
\* ------------------------------------------------------------------------

\* the transport drops (peer-side disconnect, network failure)
Disconnect ==
    /\ connected
    /\ connected' = FALSE
    /\ UNCHANGED <<iface, client, mode, pc, run_loop, auth_token, tokens, job_responses, jobs,
                   invs, nextId, hist>>

\* an auth_error handler that flips the flag
AuthErrorFlagToggle(r) == ~r

\* auth_error handler: self.run_loop = False
AuthErrorFlag(r) == FALSE

AuthError ==
    /\ connected
    /\ run_loop' = AuthErrorFlag(run_loop)
    /\ hist' = [hist EXCEPT !.authErr = TRUE, !.inflight = InFlightAtStop]
    /\ UNCHANGED <<iface, client, mode, pc, connected, auth_token, tokens, job_responses, jobs,
                   invs, nextId>>

\* token_expired handler: lambda: self.__authenticate().  Connector runs the
\* call in the handler thread; AsyncConnector's lambda only creates the
\* coroutine, which is never awaited, so nothing is executed.
TokenExpired ==
    /\ connected
    /\ tokens < MaxTokens
    /\ \E ok \in BOOLEAN :
        IF mode = "sync"
        THEN /\ auth_token' = AuthenticateToken(ok)
             /\ tokens' = IF ok THEN tokens + 1 ELSE tokens
             /\ hist' = [hist EXCEPT !.authed = @ \/ ok,
                                     !.texp = IF ok THEN "refreshed" ELSE "failed"]
        ELSE /\ UNCHANGED <<auth_token, tokens>>
             /\ hist' = [hist EXCEPT !.texp = "notrun"]
    /\ UNCHANGED <<iface, client, mode, pc, run_loop, connected, job_responses, jobs, invs, nextId>>

\* a handler that keeps one shared slot per connection instead of one per id:
\* the response is handed to every id that has been invoked
StoreResponseShared(table, p) ==
    [k \in (DOMAIN table) \cup {p.id} \cup Sent |->
        IF k = p.id \/ k \in Sent THEN p ELSE table[k]]

\* job_response handler: self.job_responses.update({p["id"]: p})
StoreResponse(table, p) ==
    [k \in (DOMAIN table) \cup {p.id} |-> IF k = p.id THEN p ELSE table[k]]

JobResponse ==
    /\ connected
    /\ \E p \in PeerResponses(Sent \cup {ForeignId}) :
        job_responses' = StoreResponse(job_responses, p)
    /\ UNCHANGED <<iface, client, mode, pc, run_loop, connected, auth_token, tokens, jobs, invs,
                   nextId, hist>>

\* ------------------------------------------------------------------------
\* __execute_job: one thread (Connector) or task (AsyncConnector) per job
\* ------------------------------------------------------------------------

SetJob(j, r) == [jobs EXCEPT ![j] = r]

\* except Exception as e: emit job_completed with success=False, error=str(e),
\* the traceback and error_tag "Connector error".  An emit that raises here
\* ends the thread / task of the job with nothing emitted.
ExceptClause(r, outcome, e) ==
    IF connected
    THEN [r EXCEPT !.st = "done", !.outcome = outcome, !.err = e,
                   !.comp = Append(@, FailureCompletion(e))]
    ELSE [r EXCEPT !.st = "done", !.outcome = outcome, !.err = e]

\* a dispatcher that runs one job at a time: a job_request is taken up only
\* when no other job is in flight
JobRequestSerialized(j) ==
    /\ connected
    /\ jobs[j].st = "idle"
    /\ \A i \in Jobs : i < j => jobs[i].st # "idle"
    /\ \A i \in Jobs : jobs[i].st \in {"idle", "done"}
    /\ \E built \in BOOLEAN :
        jobs' = SetJob(j, IF built
                          THEN [jobs[j] EXCEPT !.st = "run"]
                          ELSE ExceptClause(jobs[j], "ctx", ContextTypeError))
    /\ UNCHANGED <<iface, client, mode, pc, run_loop, connected, auth_token, tokens,
                   job_responses, invs, nextId, hist>>

\* an __execute_job that builds the context before its try block: a
\* constructor that raises ends the job with nothing reported
JobRequestCtxEscapes(j) ==
    /\ connected
    /\ jobs[j].st = "idle"
    /\ \A i \in Jobs : i < j => jobs[i].st # "idle"
    /\ \E built \in BOOLEAN :
        jobs' = SetJob(j, IF built
                          THEN [jobs[j] EXCEPT !.st = "run"]
                          ELSE [jobs[j] EXCEPT !.st = "done", !.outcome = "ctx",
                                               !.err = ContextTypeError])
    /\ UNCHANGED <<iface, client, mode, pc, run_loop, connected, auth_token, tokens,
                   job_responses, invs, nextId, hist>>

\* job_request handler: starts __execute_job(p), which builds the handler
\* context (Interface / AsyncInterface); built is whether the constructor
\* returned.  A constructor that raises is caught by the except clause.
JobRequest(j) ==
    /\ connected
    /\ jobs[j].st = "idle"
    /\ \A i \in Jobs : i < j => jobs[i].st # "idle"
    /\ \E built \in BOOLEAN :
        jobs' = SetJob(j, IF built
                          THEN [jobs[j] EXCEPT !.st = "run"]
                          ELSE ExceptClause(jobs[j], "ctx", ContextTypeError))
    /\ UNCHANGED <<iface, client, mode, pc, run_loop, connected, auth_token, tokens,
                   job_responses, invs, nextId, hist>>

\* a dispatcher that reports completions in the order of the requests: the
\* completion of a job is held back until every earlier job has finished
ReturnInOrder(j, v) ==
    /\ jobs[j].st = "run"
    /\ \A i \in Jobs : i < j => jobs[i].st = "done"
    /\ jobs' = SetJob(j,
         IF connected
         THEN [jobs[j] EXCEPT !.st = "done", !.outcome = "returned", !.ret = v,
                              !.comp = Append(@, SuccessCompletion(v))]
         ELSE IF mode = "sync"
              THEN [jobs[j] EXCEPT !.st = "except", !.outcome = "returned",
                                   !.ret = v, !.err = BadNamespaceError]
              ELSE [jobs[j] EXCEPT !.st = "done", !.outcome = "returned", !.ret = v,
                                   !.err = BadNamespaceError])
    /\ UNCHANGED <<iface, client, mode, pc, run_loop, connected, auth_token, tokens,
                   job_responses, invs, nextId, hist>>

\* the handler returns v: self.sio.emit("job_completed",
\* JobCompleted(result, True).to_dict()).  emit raises BadNamespaceError on a
\* transport that is not connected and the except clause catches it: with
\* Connector the thread enters the except clause (st "except"); with
\* AsyncConnector nothing is awaited between that raise and the emit of the
\* except clause, which therefore fails as well.
Return(j, v) ==
    /\ jobs[j].st = "run"
    /\ jobs' = SetJob(j,
         IF connected
         THEN [jobs[j] EXCEPT !.st = "done", !.outcome = "returned", !.ret = v,
                              !.comp = Append(@, SuccessCompletion(v))]
         ELSE IF mode = "sync"
              THEN [jobs[j] EXCEPT !.st = "except", !.outcome = "returned",
                                   !.ret = v, !.err = BadNamespaceError]
              ELSE [jobs[j] EXCEPT !.st = "done", !.outcome = "returned", !.ret = v,
                                   !.err = BadNamespaceError])
    /\ UNCHANGED <<iface, client, mode, pc, run_loop, connected, auth_token, tokens,
                   job_responses, invs, nextId, hist>>

\* a dispatcher that lets the handler's exception reach the connection: the
\* failure is reported and the run-flag is cleared
RaiseEscapes(j, m) ==
    /\ jobs[j].st = "run"
    /\ jobs' = SetJob(j, ExceptClause(jobs[j], "raised", ErrText("plain", 0, m)))
    /\ run_loop' = FALSE
    /\ UNCHANGED <<iface, client, mode, pc, connected, auth_token, tokens,
                   job_responses, invs, nextId, hist>>

\* the handler raises Exception(m): the except clause reports it
Raise(j, m) ==
    /\ jobs[j].st = "run"
    /\ jobs' = SetJob(j, ExceptClause(jobs[j], "raised", ErrText("plain", 0, m)))
    /\ UNCHANGED <<iface, client, mode, pc, run_loop, connected, auth_token, tokens,
                   job_responses, invs, nextId, hist>>

\* Connector, after the emit of the success completion raised: the emit of
\* the except clause, in the same thread, some time later
ExceptEmit(j) ==
    /\ jobs[j].st = "except"
    /\ jobs' = SetJob(j, ExceptClause(jobs[j], jobs[j].outcome, jobs[j].err))
    /\ UNCHANGED <<iface, client, mode, pc, run_loop, connected, auth_token, tokens,
                   job_responses, invs, nextId, hist>>

\* ------------------------------------------------------------------------
\* nested invocation: _run and __get_job_result
\* ------------------------------------------------------------------------

\* what is known of one invocation: its state, the response it consumed, and
\* the value invoke() returned or the exception it raised
InvRec(st, resp, val, exc) == [st |-> st, resp |-> resp, val |-> val, exc |-> exc]

SetInv(id, r) == [k \in (DOMAIN invs) \cup {id} |-> IF k = id THEN r ELSE invs[k]]

\* _run: job_id = str(uuid.uuid4()); emit invoke_skill {new_job_id, ...};
\* then get_result(job_id).  An emit on a transport that is not connected
\* raises into the handler, which catches it or not.
Invoke(j) ==
    /\ jobs[j].st = "run"
    /\ nextId <= MaxInvokes
    /\ jobs[j].n < MaxInvokesPerJob
    /\ nextId' = nextId + 1
    /\ IF connected
       THEN /\ invs' = SetInv(nextId, InvRec("pending", NoResp, "none", NoErr))
            /\ jobs' = SetJob(j, [jobs[j] EXCEPT !.st = "wait", !.inv = nextId,
                                                 !.n = @ + 1])
       ELSE /\ invs' = SetInv(nextId, InvRec("unsent", NoResp, "none", BadNamespaceError))
            /\ jobs' = SetJob(j, ExceptClause([jobs[j] EXCEPT !.n = @ + 1], "raised",
                                           BadNamespaceError))
    /\ UNCHANGED <<iface, client, mode, pc, run_loop, connected, auth_token, tokens,
                   job_responses, hist>>

\* a poll that gives up: when the response is not there the wait ends with
\* a timeout error raised into the handler
PollSeesOrTimesOut(j) ==
    /\ mode = "sync"
    /\ jobs[j].st = "wait"
    /\ jobs' = SetJob(j, IF jobs[j].inv \in DOMAIN job_responses
                          THEN [jobs[j] EXCEPT !.st = "pop"]
                          ELSE ExceptClause(jobs[j], "raised",
                                            ErrText("plain", 0, "timeout")))
    /\ UNCHANGED <<iface, client, mode, pc, run_loop, connected, auth_token, tokens,
                   job_responses, invs, nextId, hist>>

\* Connector.__get_job_result: if job_id in self.job_responses: -- the test;
\* the pop is the next statement of the thread
PollSees(j) ==
    /\ mode = "sync"
    /\ jobs[j].st = "wait"
    /\ jobs[j].inv \in DOMAIN job_responses
    /\ jobs' = SetJob(j, [jobs[j] EXCEPT !.st = "pop"])
    /\ UNCHANGED <<iface, client, mode, pc, run_loop, connected, auth_token, tokens,
                   job_responses, invs, nextId, hist>>

\* self.job_responses.pop(job_id)
PopResponse(table, id) == [k \in (DOMAIN table) \ {id} |-> table[k]]

\* response = self.job_responses.pop(job_id); a failed response raises into
\* the handler (caught or not), any other returns response["result"]
Resolve(j) ==
    LET id == jobs[j].inv
        resp == job_responses[id]
    IN  /\ job_responses' = PopResponse(job_responses, id)
        /\ IF GetSuccess(resp)
           THEN /\ invs' = SetInv(id, InvRec("returned", resp, resp.result, NoErr))
                /\ jobs' = SetJob(j, [jobs[j] EXCEPT !.st = "run"])
           ELSE /\ invs' = SetInv(id, InvRec("failed", resp, "none",
                                           SubJobError(mode, id, resp)))
                /\ \E caught \in BOOLEAN :
                    jobs' = SetJob(j,
                      IF caught THEN [jobs[j] EXCEPT !.st = "run"]
                      ELSE ExceptClause(jobs[j], "raised",
                                        SubJobError(mode, id, resp)))

\* Connector: the pop after a successful membership test
Pop(j) ==
    /\ mode = "sync"
    /\ jobs[j].st = "pop"
    /\ Resolve(j)
    /\ UNCHANGED <<iface, client, mode, pc, run_loop, connected, auth_token, tokens, nextId, hist>>

\* AsyncConnector.__get_job_result: the loop test and the pop run without an
\* await in between
GetResult(j) ==
    /\ mode = "async"
    /\ jobs[j].st = "wait"
    /\ jobs[j].inv \in DOMAIN job_responses
    /\ Resolve(j)
    /\ UNCHANGED <<iface, client, mode, pc, run_loop, connected, auth_token, tokens, nextId, hist>>

\* ------------------------------------------------------------------------
LoopStep ==
    \/ InitialAuth
    \/ LoopCheck
    \/ ConnectOk
    \/ ConnectError
    \/ BackoffSleep
    \/ WaitReturns
    \/ Close

PeerStep ==
    \/ Disconnect
    \/ AuthError
    \/ TokenExpired
    \/ JobResponse
    \/ \E j \in Jobs : JobRequest(j)

JobStep(j) ==
    \/ \E v \in RetVals : Return(j, v)
    \/ \E m \in Msgs : Raise(j, m)
    \/ ExceptEmit(j)
    \/ Invoke(j)
    \/ PollSees(j)
    \/ Pop(j)
    \/ GetResult(j)

Next ==
    \/ LoopStep
    \/ PeerStep
    \/ Interrupt
    \/ \E j \in Jobs : JobStep(j)

Spec == Init /\ [][Next]_vars

\* The connector's own steps are scheduled fairly (threads and tasks run);
\* nothing is assumed about the peer or about signals.
FairSpec == Spec /\ WF_vars(LoopStep) /\ \A j \in Jobs : WF_vars(JobStep(j))

\* ------------------------------------------------------------------------
\* Client (mode "sync") and AsyncClient (mode "async"): the connectors that
\* one client builds, and the job_responses tables they use
\* ------------------------------------------------------------------------

\* the dict object Client.connect creates: self.job_responses = {}
ClientDict == 0

\* @client.on(connector_id): self.connector_functions[connector_id] = func
ClientOn(c, f) ==
    /\ client.pc = "setup"
    /\ client' = [client EXCEPT !.functions =
                      [k \in (DOMAIN client.functions) \cup {c} |->
                          IF k = c THEN f ELSE client.functions[k]]]
    /\ UNCHANGED <<iface, mode, connvars>>

\* the connectors whose constructor returns.  Client.connect calls
\* Connector(api_key, connector_id, func, self.job_responses, self.logger):
\* five arguments for an __init__ that takes at most four, a TypeError;
\* AsyncClient.connect calls AsyncConnector(api_key, connector_id, func, logger)
Built(m, functions) == IF m = "sync" THEN {} ELSE DOMAIN functions

\* a constructor that takes the dict of the client as its table
ConnectorTableShared(c) == ClientDict

\* the dict object a constructed connector c uses as its table: the one its
\* own __init__ creates (self.job_responses = {}), named after the connector
ConnectorTable(c) == c

\* Client.connect / AsyncClient.connect: build one connector per registered
\* handler and start it; the first constructor that raises ends connect()
ClientConnect ==
    /\ client.pc = "setup"
    /\ LET built == Built(mode, client.functions)
           objs == {ConnectorTable(c) : c \in built}
                       \cup (IF mode = "sync" THEN {ClientDict} ELSE {})
       IN  client' = [client EXCEPT
                         !.pc = IF built = DOMAIN client.functions
                                THEN "running" ELSE "raised",
                         !.table = [c \in built |-> ConnectorTable(c)],
                         !.wait = [c \in built |-> 0],
                         !.got = [c \in built |-> 0],
                         !.dicts = [d \in objs |-> <<>>],
                         !.state = [c \in built |-> "auth"]]
    /\ UNCHANGED <<iface, mode, connvars>>

\* the connect() of connector c is past its first authenticate() and has not
\* ended
Serving(c) == c \in DOMAIN client.state /\ client.state[c] = "serving"

\* first statement of the connect() of connector c: __authenticate().  When
\* it raises, the task of c ends with the exception, asyncio.gather passes
\* it on and the connect() of the client raises
ConnSignin(c, ok) ==
    /\ c \in DOMAIN client.state
    /\ client.state[c] = "auth"
    /\ client' = [client EXCEPT
                     !.state[c] = IF ok THEN "serving" ELSE "failed",
                     !.pc = IF ok \/ @ # "running" THEN @ ELSE "raised"]
    /\ UNCHANGED <<iface, mode, connvars>>

\* connector c receives auth_error and, its transport gone, leaves the loop:
\* its connect() returns; an invoke() of c that is waiting keeps waiting
ConnAuthError(c) ==
    /\ Serving(c)
    /\ client' = [client EXCEPT !.state[c] = "stopped"]
    /\ UNCHANGED <<iface, mode, connvars>>

\* the connectors as they are once the call that ran the client has ended:
\* every task that has not finished is cancelled
Cancelled(state) ==
    [c \in DOMAIN state |-> IF state[c] \in {"auth", "serving"} THEN "cancelled"
                             ELSE state[c]]

\* the connect() of the client has raised: asyncio.run(e.connect()) cancels
\* every task still on the loop before it re-raises, the tasks of the other
\* connectors and of their jobs included
ClientExit ==
    /\ client.pc = "raised"
    /\ client' = [client EXCEPT
                     !.pc = "exited",
                     !.state = Cancelled(@),
                     !.wait = [c \in DOMAIN @ |->
                                  IF client.state[c] \in {"auth", "serving"} THEN 0 ELSE @[c]]]
    /\ UNCHANGED <<iface, mode, connvars>>

\* a handler of connector c calls invoke(): a new uuid4 id, invoke_skill
\* emitted, then get_result(id)
ConnInvoke(c) ==
    /\ Serving(c)
    /\ client.wait[c] = 0
    /\ client.nextInv <= MaxInvokes
    /\ client' = [client EXCEPT !.wait[c] = client.nextInv, !.nextInv = @ + 1]
    /\ UNCHANGED <<iface, mode, connvars>>

\* job_response with id received on the connection of connector c:
\* self.job_responses.update({p["id"]: p})
ConnJobResponse(c, id) ==
    /\ Serving(c)
    /\ id \in 1..(client.nextInv - 1)
    /\ client' = [client EXCEPT !.dicts[client.table[c]] =
                      StoreResponse(@, [id |-> id, via |-> c])]
    /\ UNCHANGED <<iface, mode, connvars>>

\* __get_job_result of connector c: the id is in self.job_responses, pop it
ConnGetResult(c) ==
    /\ Serving(c)
    /\ client.wait[c] # 0
    /\ client.wait[c] \in DOMAIN client.dicts[client.table[c]]
    /\ client' = [client EXCEPT
                      !.got[c] = client.dicts[client.table[c]][client.wait[c]].via,
                      !.wait[c] = 0,
                      !.dicts[client.table[c]] = PopResponse(@, client.wait[c])]
    /\ UNCHANGED <<iface, mode, connvars>>

ClientNext ==
    \/ \E c \in ConnectorIds, f \in Funcs : ClientOn(c, f)
    \/ ClientConnect
    \/ \E c \in ConnectorIds : ConnInvoke(c)
    \/ \E c \in ConnectorIds, id \in Ids : ConnJobResponse(c, id)
    \/ \E c \in ConnectorIds : ConnGetResult(c)
    \/ \E c \in ConnectorIds, ok \in BOOLEAN : ConnSignin(c, ok)
    \/ \E c \in ConnectorIds : ConnAuthError(c)
    \/ ClientExit

ClientSpec == Init /\ [][ClientNext]_vars

\* ------------------------------------------------------------------------
\* Interface (mode "sync") and AsyncInterface (mode "async"): the calls a
\* handler makes on the context built for its job
\* ------------------------------------------------------------------------

Agents == {"", "demo-2"}
Kwargs == {[query |-> "y"]}
ThreadSizes == {5}
StateRW == {"read-state", "update-state"}
Endpoints == {"create-state"} \cup StateRW
Statuses == {200, 304, 401, 403, 404, 500}

\* self.message = None
NoMessage == [id |-> 0, interface |-> 0, by |-> 0]

\* outcome of the last call made on a context
Called(r, op, res) == [r EXCEPT !.last = [op |-> op, res |-> res], !.n = @ + 1]

\* one context object shared by every job of the connection
ContextOfShared(j) == 1

\* the context object the handler of job j is given: i = Interface(job_id=
\* job_id, ...) is a local of __execute_job, one object per job
ContextOf(j) == j

\* no state request made yet on a context
NoRequest == [endpoint |-> "none", s1 |-> 0, s2 |-> 0, outcome |-> "none"]

\* the user on whose behalf job j runs
UserOf(j) == j

\* __init__: self.job_id = job_id; self.message = None; self.user_id =
\* user_id; self._state_proxy = StateProxy(self) (whose _state is {});
\* self.state_was_loaded = False.  last is the outcome of the last call made
\* on the context, n the number of calls made, req the last state request
\* made through it and its outcome
NewContext(j) ==
    [job_id |-> j, message |-> NoMessage, wait |-> 0,
     last |-> [op |-> "none", res |-> "none"], n |-> 0, req |-> NoRequest,
     user_id |-> UserOf(j), state |-> EmptyState, state_was_loaded |-> FALSE]

CtxCreate(j) ==
    /\ j \notin iface.started
    /\ iface' = [iface EXCEPT
                    !.started = @ \cup {j},
                    !.ctx = [c \in (DOMAIN iface.ctx) \cup {ContextOf(j)} |->
                                IF c = ContextOf(j) THEN NewContext(j)
                                ELSE iface.ctx[c]]]
    /\ UNCHANGED <<mode, connvars, client>>

\* a call can be made by the handler of job j: the job runs and is not
\* blocked in a nested invocation
CanCall(j) ==
    /\ j \in iface.started
    /\ iface.ctx[ContextOf(j)].wait = 0
    /\ iface.ctx[ContextOf(j)].n < MaxCalls

\* new_message: self.message = Message(notify=self.notify), a message with a
\* new id and nothing in its interface yet; by is the job that made the call
NewMessageCall(s, j) ==
    [s EXCEPT !.nextMsg = @ + 1,
              !.ctx[ContextOf(j)] =
                  [Called(@, "new_message", "ok") EXCEPT
                      !.message = [id |-> s.nextMsg, interface |-> 0, by |-> j]]]

CtxNewMessage(j) ==
    /\ CanCall(j)
    /\ iface.nextMsg <= MaxMessages
    /\ iface' = NewMessageCall(iface, j)
    /\ UNCHANGED <<mode, connvars, client>>

\* message.add(...): one more component in the interface of the message
MessageAdd(j) ==
    /\ CanCall(j)
    /\ iface.ctx[ContextOf(j)].message # NoMessage
    /\ iface.ctx[ContextOf(j)].message.interface < MaxComponents
    /\ iface' = [iface EXCEPT !.ctx[ContextOf(j)].message.interface = @ + 1]
    /\ UNCHANGED <<mode, connvars, client>>

\* payload handed to cb_send_message; sender is the job whose handler called
\* notify and by the job whose handler created the message
DirectMessage(msg, j) ==
    [ev |-> "direct_message", message_id |-> msg.id, interface |-> msg.interface,
     sender |-> j, by |-> msg.by]

\* a notify without the test for a missing message
NotifyCallUnchecked(s, j) ==
    LET c == ContextOf(j)
        r == s.ctx[c]
    IN  IF s.up
        THEN [s EXCEPT !.out = Append(@, DirectMessage(r.message, j)),
                       !.ctx[c] = Called(r, "notify", "ok")]
        ELSE [s EXCEPT !.ctx[c] = Called(r, "notify", "BadNamespaceError")]

\* notify: if self.message is None: raise Exception("Please create a message
\* first"); otherwise self.send_message({message_id, interface}), which is
\* sio.emit("direct_message", p) and raises when the transport is down
NotifyCall(s, j) ==
    LET c == ContextOf(j)
        r == s.ctx[c]
    IN  IF r.message = NoMessage
        THEN [s EXCEPT !.ctx[c] = Called(r, "notify", "Please create a message first")]
        ELSE IF s.up
        THEN [s EXCEPT !.out = Append(@, DirectMessage(r.message, j)),
                       !.ctx[c] = Called(r, "notify", "ok")]
        ELSE [s EXCEPT !.ctx[c] = Called(r, "notify", "BadNamespaceError")]

CtxNotify(j) ==
    /\ CanCall(j)
    /\ Len(iface.out) < MaxEvents
    /\ iface' = NotifyCall(iface, j)
    /\ UNCHANGED <<mode, connvars, client>>

\* payload handed to cb_invoke_connector
InvokeSkill(id, skill_id, kwargs, j) ==
    [ev |-> "invoke_skill", new_job_id |-> id, skill_id |-> skill_id,
     skill_payload |-> kwargs, sender |-> j]

\* a _run that uses the id of the job instead of drawing a new one
RunWithJobId(s, j, skill_id, kwargs) ==
    LET c == ContextOf(j)
        r == s.ctx[c]
        id == r.job_id
    IN  IF skill_id = ""
        THEN [s EXCEPT !.ctx[c] = Called(r, "run", "ValueError")]
        ELSE IF s.up
        THEN [s EXCEPT !.nextInv = @ + 1,
                       !.out = Append(@, InvokeSkill(id, skill_id, kwargs, j)),
                       !.ctx[c] = [Called(r, "run", "waiting") EXCEPT !.wait = id]]
        ELSE [s EXCEPT !.nextInv = @ + 1,
                       !.ctx[c] = Called(r, "run", "BadNamespaceError")]

\* _run(skill_id, **kwargs): if not skill_id: raise ValueError; job_id =
\* str(uuid.uuid4()); invoke_connector({new_job_id, skill_id, skill_payload});
\* return get_result(job_id)
Run(s, j, skill_id, kwargs) ==
    LET c == ContextOf(j)
        r == s.ctx[c]
        id == s.nextInv
    IN  IF skill_id = ""
        THEN [s EXCEPT !.ctx[c] = Called(r, "run", "ValueError")]
        ELSE IF s.up
        THEN [s EXCEPT !.nextInv = @ + 1,
                       !.out = Append(@, InvokeSkill(id, skill_id, kwargs, j)),
                       !.ctx[c] = [Called(r, "run", "waiting") EXCEPT !.wait = id]]
        ELSE [s EXCEPT !.nextInv = @ + 1,
                       !.ctx[c] = Called(r, "run", "BadNamespaceError")]

\* invoke(agent_id, **kwargs): self._run(skill_id=agent_id, **kwargs)
InvokeCall(s, j, agent_id, kwargs) == Run(s, j, agent_id, kwargs)

\* a get_thread that passes its arguments on under their own names
GetThreadCallRenamed(s, j, nr, to_string) ==
    Run(s, j, "s_get_thread", [nr |-> nr, to_string |-> to_string])

\* get_thread(nr, to_string): self._run(skill_id="s_get_thread",
\* nr_of_messages=nr, to_string=to_string)
GetThreadCall(s, j, nr, to_string) ==
    Run(s, j, "s_get_thread", [nr_of_messages |-> nr, to_string |-> to_string])

\* a nested invocation can be started
CanRun(j) == CanCall(j) /\ Len(iface.out) < MaxEvents /\ iface.nextInv <= MaxInvokes

CtxInvoke(j, agent_id, kwargs) ==
    /\ CanRun(j)
    /\ iface' = InvokeCall(iface, j, agent_id, kwargs)
    /\ UNCHANGED <<mode, connvars, client>>

CtxGetThread(j, nr, to_string) ==
    /\ CanRun(j)
    /\ iface' = GetThreadCall(iface, j, nr, to_string)
    /\ UNCHANGED <<mode, connvars, client>>

\* get_result(job_id) returns: the response of the invocation has arrived
CtxGetResult(j) ==
    /\ j \in iface.started
    /\ iface.up
    /\ iface.ctx[ContextOf(j)].wait # 0
    /\ iface' = [iface EXCEPT !.ctx[ContextOf(j)].wait = 0,
                              !.ctx[ContextOf(j)].last = [op |-> "run", res |-> "returned"]]
    /\ UNCHANGED <<mode, connvars, client>>

\* response.raise_for_status(): requests raises for 4xx and 5xx only; httpx,
\* whose version is not fixed by setup.py, raises for every status outside
\* 2xx in its current versions and for 4xx and 5xx only in earlier ones
RaisesForStatus(m, status) ==
    IF status \in 400..599 THEN {TRUE}
    ELSE IF status \in 200..299 THEN {FALSE}
    ELSE IF m = "sync" THEN {FALSE} ELSE {TRUE, FALSE}

RECURSIVE Request(_, _, _)

\* create_state: result = self._request("POST", CREATE_STATE_ENDPOINT, ...);
\* return result.get("data", {}).get("state", {})
CreateState(m, statuses) ==
    {IF o = "returned" THEN "created" ELSE o :
        o \in Request(m, "create-state", statuses)}

\* _request: the outcomes of one request to endpoint when the server answers
\* the successive calls with statuses
Request(m, endpoint, statuses) ==
    LET status == Head(statuses)
    IN  UNION {
          IF ~raises
          THEN IF status \in 200..299 THEN {"returned"}
               ELSE {"returned", "JSONDecodeError"}
          ELSE IF status \in {401, 403} THEN {"AuthorizationError"}
          ELSE IF status = 404
               THEN IF endpoint \in StateRW
                    THEN CreateState(m, Tail(statuses))
                    ELSE {"ResourceNotFoundError"}
          ELSE {"RequestError"} : raises \in RaisesForStatus(m, status)}

\* read_state / update_state / create_state called by the handler of job j;
\* s2 is kept only when the create-state call of the recovery was made
CtxRequest(j, endpoint, s1, s2) ==
    /\ j \in iface.started
    /\ \E o \in Request(mode, endpoint, <<s1, s2>>) :
        iface' = [iface EXCEPT
            !.ctx[ContextOf(j)].req =
                [endpoint |-> endpoint, s1 |-> s1,
                 s2 |-> IF s1 = 404 /\ endpoint \in StateRW THEN s2 ELSE 0,
                 outcome |-> o]]
    /\ UNCHANGED <<mode, connvars, client>>

\* the transport of the connection drops / is re-established
TransportDown ==
    /\ iface.up
    /\ iface' = [iface EXCEPT !.up = FALSE]
    /\ UNCHANGED <<mode, connvars, client>>

TransportUp ==
    /\ ~iface.up
    /\ iface' = [iface EXCEPT !.up = TRUE]
    /\ UNCHANGED <<mode, connvars, client>>

IfaceNext ==
    \/ \E j \in Jobs : CtxCreate(j)
    \/ \E j \in Jobs : CtxNewMessage(j)
    \/ \E j \in Jobs : MessageAdd(j)
    \/ \E j \in Jobs : CtxNotify(j)
    \/ \E j \in Jobs, a \in Agents, kw \in Kwargs : CtxInvoke(j, a, kw)
    \/ \E j \in Jobs, nr \in ThreadSizes, ts \in BOOLEAN : CtxGetThread(j, nr, ts)
    \/ \E j \in Jobs : CtxGetResult(j)
    \/ TransportDown
    \/ TransportUp

IfaceSpec == Init /\ [][IfaceNext]_vars

\* the state requests of the handlers, each on the context of its own job
RequestNext ==
    \/ \E j \in Jobs : CtxCreate(j)
    \/ \E j \in Jobs, e \in Endpoints, s1, s2 \in Statuses : CtxRequest(j, e, s1, s2)

RequestSpec == Init /\ [][RequestNext]_vars

\* ------------------------------------------------------------------------
\* StateProxy: the copy of the user's state a handler works on
\* ------------------------------------------------------------------------

\* read_state(state_id) as the server answers it: the stored state, or, when
\* there is none (404), the empty state that _request then creates
ReadState(store, state_id) ==
    IF state_id \in DOMAIN store THEN store[state_id] ELSE EmptyState

\* the server's states after state has been stored under state_id
Stored(store, state_id, state) ==
    [u \in (DOMAIN store) \cup {state_id} |-> IF u = state_id THEN state ELSE store[u]]

\* StateProxy.load: result = self.interface.read_state(self.interface.user_id);
\* self._state = result; self.interface.state_was_loaded = True.  ok is
\* whether read_state returned; when it raises nothing is assigned
LoadCall(s, j, ok) ==
    LET c == ContextOf(j)
        r == s.ctx[c]
    IN  IF ok
        THEN [s EXCEPT !.store = Stored(@, r.user_id, ReadState(s.store, r.user_id)),
                       !.ctx[c] = [Called(r, "load", "ok") EXCEPT
                                      !.state = ReadState(s.store, r.user_id),
                                      !.state_was_loaded = TRUE]]
        ELSE [s EXCEPT !.ctx[c] = Called(r, "load", "RequestError")]

LoadState(j) ==
    /\ CanCall(j)
    /\ \E ok \in BOOLEAN : iface' = LoadCall(iface, j, ok)
    /\ UNCHANGED <<mode, connvars, client>>

\* StateProxy.__setitem__: self._state[key] = value
SetItem(j, k, v) ==
    /\ CanCall(j)
    /\ iface' = [iface EXCEPT !.ctx[ContextOf(j)] =
                    [Called(@, "set", "ok") EXCEPT
                        !.state = [x \in (DOMAIN @) \cup {k} |->
                                      IF x = k THEN v ELSE @[x]]]]
    /\ UNCHANGED <<mode, connvars, client>>

\* StateProxy.__delitem__: if key in self._state: del self._state[key]
DelItem(j, k) ==
    /\ CanCall(j)
    /\ iface' = [iface EXCEPT !.ctx[ContextOf(j)] =
                    [Called(@, "del", "ok") EXCEPT
                        !.state = [x \in (DOMAIN @) \ {k} |-> @[x]]]]
    /\ UNCHANGED <<mode, connvars, client>>

\* the update_state request save() sends; by is the context that sent it
UpdateState(r, c) == [state_id |-> r.user_id, state |-> r.state, by |-> c]

\* StateProxy.save.  Interface: if not state_was_loaded: return; otherwise
\* update_state(user_id, self._state).  AsyncInterface: the same, but the
\* update is made only "elif self._state", i.e. when the state is not empty.
\* ok is whether update_state returned
SaveCall(m, s, j, ok) ==
    LET c == ContextOf(j)
        r == s.ctx[c]
    IN  IF ~r.state_was_loaded
        THEN [s EXCEPT !.ctx[c] = Called(r, "save", "skipped")]
        ELSE IF m = "async" /\ r.state = EmptyState
        THEN [s EXCEPT !.ctx[c] = Called(r, "save", "empty")]
        ELSE [s EXCEPT !.updates = Append(@, UpdateState(r, c)),
                       !.store = IF ok THEN Stored(@, r.user_id, r.state) ELSE @,
                       !.ctx[c] = Called(r, "save", IF ok THEN "ok" ELSE "RequestError")]

SaveState(j) ==
    /\ CanCall(j)
    /\ Len(iface.updates) < MaxSaves
    /\ \E ok \in BOOLEAN : iface' = SaveCall(mode, iface, j, ok)
    /\ UNCHANGED <<mode, connvars, client>>

StateNext ==
    \/ \E j \in Jobs : CtxCreate(j)
    \/ \E j \in Jobs : LoadState(j)
    \/ \E j \in Jobs, k \in StateKeys, v \in StateVals : SetItem(j, k, v)
    \/ \E j \in Jobs, k \in StateKeys : DelItem(j, k)
    \/ \E j \in Jobs : SaveState(j)

StateSpec == Init /\ [][StateNext]_vars

\* ------------------------------------------------------------------------
\* Properties
\* ------------------------------------------------------------------------

Finished(j) == jobs[j].st = "done"
Completions(j) == jobs[j].comp

\* C1: every job_request that was delivered gets exactly one job_completed,
\* whatever the handler did and whatever the state of the transport when the
\* job finished: never two, and one once the job has finished.
C1_ExactlyOneCompletion ==
    \A j \in Jobs :
        /\ Len(Completions(j)) <= 1
        /\ Finished(j) => Len(Completions(j)) = 1

\* C2: for a job whose handler was invoked, the job_completed that was emitted
\* has success = false if and only if the handler raised; a handler that
\* returned is never reported as failed.
C2_FailureIffRaised ==
    \A j \in Jobs :
        (jobs[j].outcome \in {"returned", "raised"} /\ Completions(j) # <<>>)
            => (Completions(j)[1].success = FALSE <=> jobs[j].outcome = "raised")

\* a step in which the handler of job j fails (its exception reaches the
\* except clause of __execute_job)
HandlerFails(j) == jobs[j].outcome # "raised" /\ jobs'[j].outcome = "raised"

\* the entries of job_responses other than the one job j is waiting for
OtherResponsesKept(j) ==
    \A k \in DOMAIN job_responses :
        k # jobs[j].inv => (k \in DOMAIN job_responses' /\ job_responses'[k] = job_responses[k])

\* C3: a step in which the handler of one job fails leaves the connect loop
\* where it is (same position, run_loop and transport unchanged) and leaves
\* every other job, and the responses stored for them, untouched.
C3_HandlerFailureContained ==
    [][\A j \in Jobs :
         HandlerFails(j) =>
            /\ pc' = pc /\ run_loop' = run_loop /\ connected' = connected
            /\ \A k \in Jobs \ {j} : jobs'[k] = jobs[k]
            /\ OtherResponsesKept(j)]_vars

\* one job failed and was reported as failed, another one ran to its own
\* successful completion, and the connector is still connected and running
C3_Witness ==
    /\ pc = "waiting" /\ run_loop /\ connected
    /\ \E j, k \in Jobs :
        /\ jobs[j].outcome = "raised" /\ Finished(j)
        /\ Completions(j) = <<FailureCompletion(jobs[j].err)>>
        /\ jobs[k].outcome = "returned" /\ Finished(k)
        /\ Completions(k) = <<SuccessCompletion(jobs[k].ret)>>

Resolved(k) == k \in DOMAIN invs /\ invs[k].st \in {"returned", "failed"}
Pending(k) == k \in DOMAIN invs /\ invs[k].st = "pending"

\* C4: every invoke() that has returned or failed was resolved by the
\* response that carries its own new_job_id, and every stored response is
\* stored under its own id.
C4_NoCrossResolution ==
    /\ \A k \in DOMAIN invs : Resolved(k) => invs[k].resp.id = k
    /\ \A k \in DOMAIN job_responses : job_responses[k].id = k

\* two invocations were outstanding at once, the responses of both had
\* arrived, and the first has been resolved while the second still waits
C4_Witness ==
    \E j, k \in Jobs :
        /\ j # k
        /\ jobs[j].inv # 0 /\ jobs[k].inv # 0 /\ jobs[j].inv # jobs[k].inv
        /\ Resolved(jobs[j].inv)
        /\ jobs[k].st = "wait" /\ jobs[k].inv \in DOMAIN job_responses

\* C5: once a response for id X is stored, a further job_response with id X
\* has no effect: it does not replace the stored response (the value invoke()
\* will return), and once invoke() for X has consumed its response no entry
\* for X appears in job_responses again.
C5_SecondResponseDropped ==
    [][/\ \A k \in (DOMAIN job_responses) \cap (DOMAIN job_responses') :
            Pending(k) => job_responses'[k] = job_responses[k]
       /\ \A k \in DOMAIN job_responses' : ~Resolved(k)]_vars

\* C6: a job_response whose id matches no pending invocation adds no entry
\* to job_responses.
C6_UnmatchedResponseDropped ==
    [][\A k \in (DOMAIN job_responses') \ (DOMAIN job_responses) : Pending(k)]_vars

\* a step that resolves the invocation with id k
Resolves(k) == Pending(k) /\ k \in DOMAIN invs' /\ invs'[k].st # "pending"

C8_NoReconnectAfterAuthError ==
    hist.authErr => (~run_loop /\ pc \in {"waiting", "loop", "closing", "done"})

\* auth_error was received, the transport then dropped, and connect() left
\* the loop and returned
C8_Witness == hist.authErr /\ pc = "done" /\ ~connected

Started(j) == jobs[j].st # "idle"

\* C9: after an auth_error no job_request is executed any more, and connect()
\* leaves its loop and closes the transport by its own steps.
C9_AuthErrorStops ==
    /\ [][hist.authErr => \A j \in Jobs : Started(j)' => Started(j)]_vars
    /\ (hist.authErr ~> pc = "done")

\* C10: every sio.connect attempt is preceded by an authenticate() call made
\* since the previous attempt, and every attempt but the first by the backoff
\* delay.
C10_ReconnectBackoffReauth ==
    [][(pc = "loop" /\ pc' = "connecting") =>
          /\ hist.authed
          /\ hist.attempted => hist.waited = BackoffDelay]_vars

\* a step in which a network-level failure happens while run_loop is true:
\* sio.connect raises ConnectionError, or the /signin call of the first
\* authenticate() fails at the network level
NetworkFailure ==
    \/ pc = "connecting" /\ run_loop /\ run_loop' /\ pc' \notin {"connecting", "waiting"}
    \/ hist.signin = "none" /\ hist'.signin = "neterror"

\* C11: while run_loop is true every network-level failure (ConnectionError
\* from sio.connect, network failure of authenticate()) takes connect() into
\* the backoff, and the backoff always ends, after the same BackoffDelay, at
\* the loop head from which the next attempt is made.
C11_NetworkFailureRetried ==
    [][/\ NetworkFailure => pc' = "backoff"
       /\ (pc = "backoff" /\ pc' # pc) =>
             (pc' = "loop" /\ run_loop' /\ hist'.waited = BackoffDelay)]_vars

\* C12: once the /signin call of the first authenticate() has been rejected,
\* connect() has ended with the error and stays ended: no token was ever
\* stored by a later /signin, the transport was never opened (so no
\* authenticate event was sent) and no job_request was executed.
C12_RejectedSigninIsFatal ==
    hist.signin = "rejected" =>
        /\ pc = "failed" /\ ~connected /\ ~hist.attempted
        /\ auth_token = 0 /\ tokens = 0 /\ hist.texp = "none"
        /\ \A j \in Jobs : ~Started(j)
        /\ job_responses = <<>> /\ invs = <<>>

\* the first /signin was rejected and connect() has ended with the error
C12_Witness == hist.signin = "rejected" /\ pc = "failed" /\ run_loop /\ ~connected

\* C13: the step that handles the first token_expired event replaces
\* auth_token (unless /signin itself failed) and changes nothing else: the
\* transport stays connected, run_loop, job_responses, every job and every
\* pending invoke() are as before.  For Connector and AsyncConnector alike.
C13_TokenExpiredReauthenticates ==
    [][(hist.texp = "none" /\ hist'.texp # "none") =>
          /\ hist'.texp # "failed" => auth_token' # auth_token
          /\ connected' /\ run_loop' = run_loop /\ pc' = pc
          /\ job_responses' = job_responses /\ jobs' = jobs /\ invs' = invs]_vars

\* C14: connect() is over (it raised, or it left its loop) only after an
\* authentication failure (/signin rejected, or an auth_error event, which
\* clears run_loop) or an explicit stop (which clears run_loop as well).
C14_TerminatesOnlyOnAuthOrStop ==
    pc \in {"failed", "closing", "done"} => (hist.signin = "rejected" \/ ~run_loop)

\* C15: the step that clears run_loop leaves every job where it is, and a
\* job that was in flight at that step and finishes later still has exactly
\* one job_completed emitted for it.
C15_ShutdownKeepsJobs ==
    [][/\ (run_loop /\ ~run_loop') => jobs' = jobs /\ invs' = invs
       /\ \A j \in hist.inflight :
            (~Finished(j) /\ Finished(j)') => Len(Completions(j)') = 1]_vars

\* C16: once run_loop has been cleared (interrupt, or the flag cleared while
\* connect() is in sio.wait()), connect() leaves the loop, calls
\* sio.disconnect() and returns by its own steps alone.
C16_StopTerminates == (~run_loop) ~> (pc = "done")

\* job b can be taken up by the job_request handler: it has not been requested
\* yet and every job before it has
Requestable(b) == jobs[b].st = "idle" /\ \A i \in Jobs : i < b => jobs[i].st # "idle"

\* C17: while the handler of a job a is blocked in invoke(), on a connected
\* transport a later job_request b can still be dispatched, a running job b
\* can still complete, and a job_response can still be received and stored.
C17_JobsNotSerialized ==
    \A a \in Jobs :
        (jobs[a].st \in {"wait", "pop"} /\ connected) =>
            /\ ENABLED JobResponse
            /\ \A b \in Jobs \ {a} :
                /\ Requestable(b) => ENABLED JobRequest(b)
                /\ jobs[b].st = "run" => ENABLED (\E v \in RetVals : Return(b, v))

\* job a is still waiting in invoke() for a response that has not arrived,
\* and job b, requested after it, has run and had its success reported
C17_Witness ==
    \E a, b \in Jobs :
        /\ a < b /\ connected
        /\ jobs[a].st = "wait" /\ jobs[a].inv \notin DOMAIN job_responses
        /\ Finished(b) /\ Completions(b) = <<SuccessCompletion(jobs[b].ret)>>
        /\ ForeignId \in DOMAIN job_responses

\* C18: every id whose invoke_skill has been emitted and whose invoke() has
\* not been resolved has its slot in job_responses: the id is registered
\* before the emission.
C18_RegisteredBeforeEmit ==
    \A k \in Ids : Pending(k) => k \in DOMAIN job_responses

\* C19: every key of job_responses is the id of an invocation that is still
\* unresolved, so the table is never larger than the set of outstanding
\* invocations and is empty when there is none.
C19_TableHoldsOnlyOutstanding ==
    /\ \A k \in DOMAIN job_responses : Pending(k)
    /\ Cardinality(DOMAIN job_responses) <= Cardinality({k \in Ids : Pending(k)})

\* C20: no two connectors of a client use the same job_responses table, every
\* response in the table of a connector was received on that connector's own
\* connection, and an invoke() only ever consumed a response received on its
\* own connection.
C20_TablesNotShared ==
    /\ \A a, b \in DOMAIN client.table :
            a # b => client.table[a] # client.table[b]
    /\ \A c \in DOMAIN client.table :
        /\ \A k \in DOMAIN client.dicts[client.table[c]] :
                client.dicts[client.table[c]][k].via = c
        /\ client.got[c] \in {0, c}

\* connector a has consumed the response to its own invocation, and a
\* response carrying the id that connector b waits for has arrived on the
\* connection of a while b is still waiting
C20_Witness ==
    \E a, b \in DOMAIN client.table :
        /\ a # b /\ client.got[a] = a
        /\ client.wait[b] # 0
        /\ client.wait[b] \in DOMAIN client.dicts[client.table[a]]

\* C21: a job that waits in invoke() stays exactly as it is until a response
\* carrying the id of its invocation is in job_responses: no step ends the
\* wait, finishes the job or emits its job_completed before that.
C21_InvokeWaitsForItsResponse ==
    [][\A j \in Jobs :
         jobs[j].st = "wait" =>
            \/ jobs'[j] = jobs[j]
            \/ /\ jobs[j].inv \in DOMAIN job_responses
               /\ job_responses[jobs[j].inv].id = jobs[j].inv]_vars

\* a job is still waiting for a response that has not arrived, the transport
\* has dropped in the meantime and a reconnection attempt has failed
C21_Witness ==
    \E j \in Jobs :
        /\ jobs[j].st = "wait" /\ jobs[j].inv \notin DOMAIN job_responses
        /\ Completions(j) = <<>>
        /\ pc = "backoff" /\ ~connected

\* C23: when the handler of a job has returned V, the job_completed emitted
\* for the job is {result: V, success: true, error: null, traceback: null,
\* error_tag: null}.
C23_SuccessPayload ==
    \A j \in Jobs :
        (jobs[j].outcome = "returned" /\ Completions(j) # <<>>) =>
            Completions(j)[1] = [result |-> jobs[j].ret, success |-> TRUE,
                                 error |-> NoErr, traceback |-> FALSE,
                                 error_tag |-> "null"]

\* C24: when the handler of a job has raised an error whose text is M, the
\* job_completed emitted for the job has result null, success false, error M,
\* a traceback and error_tag "Connector error".
C24_FailurePayload ==
    \A j \in Jobs :
        (jobs[j].outcome = "raised" /\ Completions(j) # <<>>) =>
            Completions(j) = <<[result |-> "null", success |-> FALSE,
                                error |-> jobs[j].err, traceback |-> TRUE,
                                error_tag |-> "Connector error"]>>

\* a handler raised Exception("bad input") and the failure was reported
C24_Witness ==
    \E j \in Jobs :
        /\ jobs[j].outcome = "raised" /\ Finished(j)
        /\ jobs[j].err = ErrText("plain", 0, "bad input")
        /\ Len(Completions(j)) = 1 /\ Completions(j)[1].error.msg = "bad input"

\* C26: on every transport session exactly one authenticate event has been
\* emitted; its key and cid are those of the connector and its token was the
\* token of the last successful authenticate() at the time the session was
\* established (the step that establishes a session emits auth_token as it
\* is then, so a token refreshed before is the one sent).
C26_AuthenticateOnEverySession ==
    [][/\ connected' =>
            /\ Len(hist'.authev) = 1
            /\ hist'.authev[1].cid = "cid" /\ hist'.authev[1].key = "key"
            /\ hist'.authev[1].token \in 1..tokens'
       /\ (~connected /\ connected') => hist'.authev[1].token = auth_token]_vars

\* the token was refreshed by token_expired, the transport dropped, and the
\* session established afterwards was opened with the refreshed token
C26_Witness ==
    /\ connected /\ hist.texp = "refreshed" /\ tokens = 2
    /\ hist.authev = <<[token |-> 2, cid |-> "cid", key |-> "key"]>>

\* C28: once connect() of the client has run, there is exactly one connector
\* for every registered handler id and none for any other id; it runs the
\* handler registered last under that id.
C28_OneConnectorPerHandlerId ==
    client.pc # "setup" => DOMAIN client.table = DOMAIN client.functions

\* a step in which a call op is made on context c
CallStep(c, op) ==
    /\ c \in DOMAIN iface.ctx /\ c \in DOMAIN iface'.ctx
    /\ iface'.ctx[c].n = iface.ctx[c].n + 1
    /\ iface'.ctx[c].last.op = op

\* the event emitted by the step, when the step emits exactly one
Emitted == iface'.out[Len(iface'.out)]
EmitsOne == Len(iface'.out) = Len(iface.out) + 1 /\ SubSeq(iface'.out, 1, Len(iface.out)) = iface.out

\* the new_job_ids of the invoke_skill events emitted so far
UsedIds == {iface.out[i].new_job_id :
               i \in {k \in 1..Len(iface.out) : iface.out[k].ev = "invoke_skill"}}

C25_NotifyEmits ==
    [][\A c \in DOMAIN iface.ctx :
         CallStep(c, "notify") =>
            IF iface.ctx[c].message = NoMessage
            THEN iface'.out = iface.out /\ iface'.ctx[c].last.res # "ok"
            ELSE /\ EmitsOne
                 /\ Emitted.ev = "direct_message"
                 /\ Emitted.message_id = iface.ctx[c].message.id
                 /\ Emitted.interface = iface.ctx[c].message.interface]_vars

\* C25 (amended): a notify() on a context without a message fails and emits
\* nothing; on a context with a message it emits, while the transport is
\* connected, exactly one direct_message with the id and the interface of
\* the message created last on that context, and otherwise fails with
\* BadNamespaceError and emits nothing.
C25_NotifyEmitsWhenConnected ==
    [][\A c \in DOMAIN iface.ctx :
         CallStep(c, "notify") =>
            IF iface.ctx[c].message = NoMessage
            THEN /\ iface'.out = iface.out
                 /\ iface'.ctx[c].last.res = "Please create a message first"
            ELSE IF iface.up
            THEN /\ EmitsOne
                 /\ Emitted.ev = "direct_message"
                 /\ Emitted.message_id = iface.ctx[c].message.id
                 /\ Emitted.interface = iface.ctx[c].message.interface
                 /\ iface'.ctx[c].last.res = "ok"
            ELSE /\ iface'.out = iface.out
                 /\ iface'.ctx[c].last.res = "BadNamespaceError"]_vars

\* one handler created two messages and sent the second, another handler
\* called notify() without a message and failed
C25_Witness ==
    /\ iface.out = <<[ev |-> "direct_message", message_id |-> 2, interface |-> 0,
                      sender |-> 1, by |-> 1]>>
    /\ iface.nextMsg = 3
    /\ \E c \in DOMAIN iface.ctx :
        iface.ctx[c].last = [op |-> "notify", res |-> "Please create a message first"]

C29_GetThreadIsInvoke ==
    \A j \in Jobs :
        CanRun(j) =>
            \A nr \in ThreadSizes, ts \in BOOLEAN :
                GetThreadCall(iface, j, nr, ts) =
                    InvokeCall(iface, j, "s_get_thread",
                               [nr_of_messages |-> nr, to_string |-> ts])

\* get_thread(5, True) has been called: invoke_skill for s_get_thread was
\* emitted and the handler waits for its response
C29_Witness ==
    \E i \in 1..Len(iface.out), c \in DOMAIN iface.ctx :
        /\ iface.out[i].ev = "invoke_skill"
        /\ iface.out[i].skill_id = "s_get_thread"
        /\ iface.out[i].skill_payload = [nr_of_messages |-> 5, to_string |-> TRUE]
        /\ iface.ctx[c].wait = iface.out[i].new_job_id

\* C30: a state request answered 401 or 403 fails with AuthorizationError; a
\* 404 on read-state or update-state is followed by one create-state call
\* whose state is returned, and a 404 on create-state (also inside that
\* recovery) fails with ResourceNotFoundError; every other answer outside 2xx
\* fails with RequestError.
C30_RequestStatusMapping ==
    \A c \in DOMAIN iface.ctx :
        LET q == iface.ctx[c].req
        IN  q.endpoint # "none" =>
              /\ q.s1 \in 200..299 => q.outcome = "returned"
              /\ q.s1 \in {401, 403} => q.outcome = "AuthorizationError"
              /\ (q.s1 = 404 /\ q.endpoint \notin StateRW) =>
                    q.outcome = "ResourceNotFoundError"
              /\ (q.s1 = 404 /\ q.endpoint \in StateRW) =>
                    /\ q.s2 \in 200..299 => q.outcome = "created"
                    /\ q.s2 = 404 => q.outcome = "ResourceNotFoundError"
                    /\ q.s2 \in {401, 403} => q.outcome = "AuthorizationError"
              /\ (q.s1 \notin 200..299 /\ q.s1 \notin {401, 403, 404}) =>
                    q.outcome = "RequestError"

\* C31: whenever two jobs of one connection are both running on a connected
\* transport, either of them can be the next to have its job_completed
\* emitted, whichever was requested first: no order is imposed on the
\* completions of concurrently dispatched jobs.
C31_CompletionOrderFree ==
    \A a, b \in Jobs :
        (a # b /\ connected /\ jobs[a].st = "run" /\ jobs[b].st = "run") =>
            /\ ENABLED (\E v \in RetVals : Return(a, v) /\ jobs'[b] = jobs[b]
                                            /\ Len(jobs'[a].comp) = 1)
            /\ ENABLED (\E v \in RetVals : Return(b, v) /\ jobs'[a] = jobs[a]
                                            /\ Len(jobs'[b].comp) = 1)

\* job b was requested after job a and its job_completed has been emitted
\* while the handler of a is still running
C31_Witness ==
    \E a, b \in Jobs :
        /\ a < b /\ connected
        /\ jobs[a].st = "run" /\ Completions(a) = <<>>
        /\ Finished(b) /\ jobs[b].outcome = "returned"
        /\ Completions(b) = <<SuccessCompletion(jobs[b].ret)>>

\* the waiter of the invocation with id k: the job blocked in invoke() for k
Waiters(k) == {j \in Jobs : jobs[j].st \in {"wait", "pop"} /\ jobs[j].inv = k}

\* a pop never fails on a missing key: a waiter that has seen its id in the
\* table still finds it there
PopFindsKey == \A j \in Jobs : jobs[j].st = "pop" => jobs[j].inv \in DOMAIN job_responses

\* every id has at most one waiter, so a stored response is consumed by at
\* most one invoke()
OneWaiterPerId == \A k \in Ids : Cardinality(Waiters(k)) <= 1

\* a response stored for a waiting invoke() leaves the table only in the step
\* in which that invoke() consumes it
RemovedOnlyByWaiter ==
    \A k \in DOMAIN job_responses :
        (Pending(k) /\ k \notin DOMAIN job_responses') =>
            (Resolves(k) /\ invs'[k].resp = job_responses[k])

\* a response stored for a waiting invoke() stays as it is until that invoke()
\* consumes it
KeptUntilRead ==
    \A k \in DOMAIN job_responses :
        (Pending(k) /\ k \in DOMAIN job_responses') => job_responses'[k] = job_responses[k]

\* C32: in every interleaving of the job_response handler with the waiters
\* of the invocations in flight, a pop never fails on a missing key, a
\* response stored for a waiter is neither removed nor replaced before that
\* waiter consumes it, and every stored response has at most one waiter.
C32_TableRaceFree ==
    /\ [](PopFindsKey /\ OneWaiterPerId)
    /\ [][RemovedOnlyByWaiter /\ KeptUntilRead]_vars

\* a step in which the invoke() with id k fails on a response with success =
\* false
InvokeFails(k) == Pending(k) /\ k \in DOMAIN invs' /\ invs'[k].st = "failed"

\* the step leaves every invocation other than k, its stored response and
\* its waiter as they are
OthersUntouched(k) ==
    /\ \A y \in (DOMAIN job_responses) \ {k} :
            y \in DOMAIN job_responses' /\ job_responses'[y] = job_responses[y]
    /\ \A y \in (DOMAIN invs) \ {k} : invs'[y] = invs[y]
    /\ \A b \in Jobs : jobs[b].inv # k => jobs'[b] = jobs[b]

\* C33: the step in which invoke() for id X fails leaves the stored
\* responses, the invocations and the waiters of every other id unchanged
\* (and they are later resolved by their own responses); when the calling
\* handler does not catch the error, exactly one job_completed with success =
\* false and an error carrying the remote error message is emitted for its
\* job.
C33_FailedInvokeContained ==
    [][\A k \in Ids :
         InvokeFails(k) =>
            /\ OthersUntouched(k)
            /\ \A y \in DOMAIN invs' : Resolved(y)' => invs'[y].resp.id = y
            /\ \A j \in Jobs :
                 (jobs[j].inv = k /\ jobs'[j].outcome = "raised") =>
                    /\ Len(jobs'[j].comp) = 1
                    /\ jobs'[j].comp[1].success = FALSE
                    /\ jobs'[j].comp[1].error.msg = job_responses[k].error]_vars

\* the job_completed a variant m emits for a job whose handler let the error
\* of the failed invocation id escape
SubJobFailureReport(m, id, resp) == FailureCompletion(SubJobError(m, id, resp))

\* C34: Connector and AsyncConnector emit the same events for the same
\* inputs; in particular, whenever a job waits for a nested invocation whose
\* stored response has success = false, the job_completed reporting that
\* failure is the same, error text included, in both variants.
C34_VariantsEmitTheSame ==
    \A j \in Jobs :
        (/\ jobs[j].st \in {"wait", "pop"}
         /\ jobs[j].inv \in DOMAIN job_responses
         /\ ~GetSuccess(job_responses[jobs[j].inv])) =>
            SubJobFailureReport("sync", jobs[j].inv, job_responses[jobs[j].inv])
                = SubJobFailureReport("async", jobs[j].inv, job_responses[jobs[j].inv])

\* C35: no update_state is sent from a context on which no load() has
\* returned, and state_was_loaded becomes true only in a load() that returns;
\* sets and deletes change only the local copy; a save() on a context whose
\* state was loaded sends exactly one update_state, carrying the current
\* local state under the user_id of the context.
C35_LoadBeforeSave ==
    /\ [](\A i \in 1..Len(iface.updates) :
              iface.ctx[iface.updates[i].by].state_was_loaded)
    /\ [][\A c \in DOMAIN iface.ctx :
            /\ (~iface.ctx[c].state_was_loaded /\ iface'.ctx[c].state_was_loaded) =>
                  (CallStep(c, "load") /\ iface'.ctx[c].last.res = "ok")
            /\ (CallStep(c, "set") \/ CallStep(c, "del")) =>
                  (iface'.updates = iface.updates /\ iface'.store = iface.store)
            /\ CallStep(c, "save") =>
                  IF iface.ctx[c].state_was_loaded
                  THEN iface'.updates =
                          Append(iface.updates,
                                 [state_id |-> iface.ctx[c].user_id,
                                  state |-> iface.ctx[c].state, by |-> c])
                  ELSE iface'.updates = iface.updates /\ iface'.store = iface.store]_vars

\* job j waits in invoke() for id k and the response for k has been stored
ResponseDelivered(j, k) ==
    jobs[j].st = "wait" /\ jobs[j].inv = k /\ k \in DOMAIN job_responses

\* C36: when an invoke() waits for id X and a job_response with id X has
\* been stored, then, the connector's own steps being scheduled fairly, the
\* invoke() returns or fails and the entry for X is removed, and a
\* job_completed is emitted for the enclosing job.
C36_DeliveredResponseCompletes ==
    \A j \in Jobs, k \in Ids :
        /\ ResponseDelivered(j, k) ~> (Resolved(k) /\ k \notin DOMAIN job_responses)
        /\ ResponseDelivered(j, k) ~> (Finished(j) /\ Len(Completions(j)) = 1)

ContextFails(j) == jobs[j].outcome # "ctx" /\ jobs'[j].outcome = "ctx"

C40_FailedRefreshKeepsToken ==
    [][/\ (hist.texp # "failed" /\ hist'.texp = "failed") =>
            /\ auth_token' = auth_token /\ tokens' = tokens
            /\ run_loop' = run_loop /\ job_responses' = job_responses
            /\ connected' = connected /\ pc' = pc
            /\ jobs' = jobs /\ invs' = invs
       /\ (hist.texp = "failed" /\ hist'.texp \in {"failed", "carried"}) =>
            auth_token' = auth_token
       /\ (hist.texp = "failed" /\ ~connected /\ connected') =>
            hist'.authev = <<[token |-> auth_token, cid |-> "cid", key |-> "key"]>>]_vars

\* the /signin call of a token_expired failed, the transport dropped, and the
\* next session was opened with the token issued at the start
C40_Witness ==
    /\ mode = "sync" /\ hist.texp = "carried" /\ connected
    /\ tokens = 1 /\ auth_token = 1
    /\ hist.authev = <<[token |-> 1, cid |-> "cid", key |-> "key"]>>

\* a step in which the connect() of connector c ends: it returns after an
\* auth_error, or its authenticate() is rejected
ConnectorEnds(c) ==
    /\ c \in DOMAIN client.state /\ client.state[c] \in {"auth", "serving"}
    /\ client'.state[c] \in {"stopped", "failed"}

\* C38: the step in which one connector of a client stops leaves every other
\* connector of that client as it is (its connect(), its pending invoke(),
\* its job_responses), and no connector is ever ended from outside: each one
\* is in its authenticate(), serving, or has ended by its own auth_error or
\* its own rejected authenticate().
C38_ConnectorsIndependent ==
    /\ [][\A c \in DOMAIN client.state :
            ConnectorEnds(c) =>
               \A d \in (DOMAIN client.state) \ {c} :
                  /\ client'.state[d] = client.state[d]
                  /\ client'.wait[d] = client.wait[d]
                  /\ client'.dicts[client.table[d]] = client.dicts[client.table[d]]]_vars
    /\ [](\A d \in DOMAIN client.state :
            client.state[d] \in {"auth", "serving", "stopped", "failed"})

====
